---- MODULE Spec2Model ----
(***************************************************************************)
(* Running course generator: the loop route selection of                   *)
(* services/mapService.ts (findOptimalLoopRoute) and the handler of        *)
(* App that drives it (handleGenerateCourse).                              *)
(*                                                                         *)
(* Quantities in kilometres (desiredDistanceKm, distanceKm) are held in    *)
(* fixed point with three decimals, so 5 km is 5000 and the division of    *)
(* a whole number of metres by 1000 is exact.  The Directions and          *)
(* Elevation services are the environment: their answers are drawn from    *)
(* the small sets RouteResponses and ElevationResponses.                   *)
(***************************************************************************)
EXTENDS Integers, Sequences, FiniteSets, TLC

\* Number of waypoints one call explores.  The program's
\* NUM_INTERMEDIATE_POINT_CANDIDATES is 8; the fan-out loop is the same for
\* every count, and the model runs it over NumCandidates waypoints.
NumCandidates == 3

\* constants.ts
DISTANCE_TOLERANCE_PERCENT == 25        \* DISTANCE_TOLERANCE_FACTOR = 0.25
INTERMEDIATE_POINT_RADIUS_PERCENT == 40 \* INTERMEDIATE_POINT_RADIUS_FACTOR = 0.4
ELEVATION_SAMPLES == 128
DEFAULT_PACE_MIN_PER_KM == 6
MetersPerKm == 1000

\* null, for a state or an argument that holds an object; for the error
\* message, a string; and for the results argument of the elevation callback,
\* an array.
Null == [ null |-> TRUE ]
NoError == "null"
NoResults == << Null >>
NoDistance == -1    \* a leg whose distance field is undefined
NoGain == -1        \* no value returned yet

Waypoints == 0 .. (NumCandidates - 1)

\* Bound of the arrays of valid routes given to the selection on its own.
MaxRoutes == 2

\* Bounds of the arrays given to calculateCumulativeElevation on its own:
\* their length and their elevations, from 0 up.
MaxSamples == 3
MaxElevation == 3

\* Bound of the overview paths given to the route callback on its own: how
\* many points they have beyond ELEVATION_SAMPLES.
MaxPathExcess == 1

Abs(x) == IF x < 0 THEN -x ELSE x
Min(a, b) == IF a <= b THEN a ELSE b

\* Number.prototype.toFixed followed by parseFloat, on a non-negative fixed
\* point value: rounds to a multiple of step.
ToFixed(x, step) == ((x + (step \div 2)) \div step) * step

(***************************************************************************)
(* Environment: what the user and the two services can deliver.            *)
(***************************************************************************)
StartPoints == { [ lat |-> 35, lng |-> 139 ] }

\* Values handleInputChange can pass on: the empty input gives 0, and the
\* pattern admits no sign.
DistanceInputs == {0, 5000}

MsgNoStartPoint == "Please set a start point on the map."
MsgBadDistance == "Please enter a valid distance greater than 0 km."
MsgNoCourse == "Could not find a suitable course. Try adjusting the distance or start point."
MsgApiNotLoaded == "Google Maps API not loaded."
MsgGeoUnsupported == "Geolocation is not supported by your browser or map not ready."
MsgGeoFailed == "Could not get current location: denied"

\* Where the start marker can be dragged to.
MarkerPositions == { [ lat |-> 36, lng |-> 140 ] }

\* Bound on the getCurrentPosition requests of handleGoToCurrentLocation that
\* wait for their callback at the same time.
MaxGeoRequests == 1

\* Bound on the runs of handleGenerateCourse followed beside the first one.
MaxOverlappingRuns == 1

\* Shapes of a DirectionsRoute: the leg distances in metres and the number
\* of points of overview_path.
RouteShapes ==
    { [legs |-> <<2000, 2000>>,    overview_path |-> 2],
      [legs |-> <<2500, 2500>>,    overview_path |-> 3],
      [legs |-> <<3000, 4000>>,    overview_path |-> 3],
      [legs |-> <<4000, 4000>>,    overview_path |-> 2],
      [legs |-> <<0, NoDistance>>, overview_path |-> 2],
      [legs |-> <<2500, 2500>>,    overview_path |-> 1] }

\* What the Directions service can hand to the callback of a request.
RouteResponses(request) ==
    { [status |-> "ZERO_RESULTS", result |-> Null],
      [status |-> "NOT_FOUND",    result |-> Null],
      [status |-> "OK",           result |-> Null],
      [status |-> "OK",           result |-> [request |-> request, routes |-> <<>>]] }
    \cup { [status |-> "OK", result |-> [request |-> request, routes |-> <<r>>]] :
              r \in RouteShapes }

\* Elevation profiles along a path, one value per sample.
ElevationProfiles ==
    { <<0, 5>>, <<10, 0, 5>>, <<0, 5, 10>>, <<5, 0, 10>> }

\* What the Elevation service can hand to the callback of a request for
\* `samples` samples.
ElevationResponses(samples) ==
    { [status |-> "UNKNOWN_ERROR", results |-> NoResults],
      [status |-> "OK",            results |-> NoResults] }
    \cup { [status |-> "OK",
            results |-> [k \in 1 .. Len(p) |-> [elevation |-> p[k]]]] :
              p \in { q \in ElevationProfiles : Len(q) = samples } }

(***************************************************************************)
(* State.                                                                  *)
(***************************************************************************)
VARIABLES
    googleMaps,         \* window.google: "absent", "core" (maps only), "full" (with geometry)
    userStartPoint,     \* App state
    desiredDistanceKm,  \* App state
    generatedCourse,    \* App state
    isLoading,          \* App state
    error,              \* App state
    pc,                 \* "idle", or "awaiting": findOptimalLoopRoute suspended at its await
    call,               \* arguments of the latest findOptimalLoopRoute call
    ev,                 \* per waypoint: the evaluation's promise, queries and callback position
    completionOrder,    \* while a call is suspended: the waypoints whose promise was
                        \* fulfilled with a route, in the order of fulfilment
    outcome,            \* how the latest handleGenerateCourse run went: "none", "refused",
                        \* "pending", "threw" or "returned"
    validRoutes,        \* the array validRoutes of the latest findOptimalLoopRoute call
    optimalRouteData,   \* what the latest findOptimalLoopRoute call returned
    geoRequests,        \* getCurrentPosition requests of handleGoToCurrentLocation
                        \* whose callback has not run
    overlappingRuns,    \* runs of handleGenerateCourse started while another was at its
                        \* await, and themselves at their await
    elevationResults,   \* argument of a calculateCumulativeElevation call on its own
    elevationGainM      \* what that call returned, NoGain before it

vars == << googleMaps, userStartPoint, desiredDistanceKm, generatedCourse, isLoading,
           error, pc, call, ev, completionOrder, outcome, validRoutes, optimalRouteData,
           geoRequests, overlappingRuns, elevationResults, elevationGainM >>

\* The state the selection and the first run of the handler leave alone.
functionVars == << overlappingRuns, elevationResults, elevationGainM >>

\* An evaluation before the loop of findOptimalLoopRoute reaches it.
IdleEvaluation ==
    [ phase |-> "idle", promise |-> "none", value |-> Null, request |-> Null,
      result |-> Null, routeQueries |-> 0, elevationQueries |-> 0, samples |-> 0,
      routeStatus |-> "", warnings |-> 0 ]

(***************************************************************************)
(* mapService.ts                                                           *)
(***************************************************************************)
\* calculateIntermediatePoint: computeOffset of the geometry library, or null.
calculateIntermediatePoint(startPoint, angleDegrees, distanceMeters) ==
    IF googleMaps = "full"
    THEN [from |-> startPoint, heading |-> angleDegrees, distance |-> distanceMeters]
    ELSE Null

\* Variant of calculateCumulativeElevation that adds every difference.
calculateNetElevation(elevations) ==
    LET gain[i \in 1 .. Len(elevations)] ==
            IF i = 1 THEN 0
            ELSE gain[i - 1] + (elevations[i].elevation - elevations[i - 1].elevation)
    IN  IF Len(elevations) = 0 THEN 0 ELSE gain[Len(elevations)]

\* What the iterations of the loop of calculateCumulativeElevation that end at
\* the elements after first, up to last, add to gain. The iterations are
\* summed by halves, which keeps the evaluation of a long array shallow.
RECURSIVE GainOfIterations(_, _, _)
GainOfIterations(elevations, first, last) ==
    IF last <= first THEN 0
    ELSE IF last = first + 1
    THEN LET diff == elevations[last].elevation - elevations[last - 1].elevation
         IN  IF diff > 0 THEN diff ELSE 0
    ELSE LET middle == (first + last) \div 2
         IN  GainOfIterations(elevations, first, middle)
               + GainOfIterations(elevations, middle, last)

\* calculateCumulativeElevation: sum of the positive consecutive differences.
calculateCumulativeElevation(elevations) ==
    GainOfIterations(elevations, 1, Len(elevations))

\* route.legs.reduce((sum, leg) => sum + (leg.distance?.value || 0), 0)
ActualDistanceMeters(route) ==
    LET sum[i \in 0 .. Len(route.legs)] ==
            IF i = 0 THEN 0
            ELSE sum[i - 1] + (IF route.legs[i] = NoDistance THEN 0 ELSE route.legs[i])
    IN  sum[Len(route.legs)]

\* actualDistanceMeters / 1000, in fixed point with three decimals.
DistanceKm(actualDistanceMeters) == (actualDistanceMeters * 1000) \div MetersPerKm

\* desiredDistanceKm * INTERMEDIATE_POINT_RADIUS_FACTOR * 1000
IntermediateDistanceMeters(desiredKm) ==
    (((desiredKm * INTERMEDIATE_POINT_RADIUS_PERCENT) \div 100) * MetersPerKm) \div 1000

\* Variant of Request that counts the bearings from 1.
RequestBearingsFromOne(startPoint, desiredKm, i) ==
    LET angle == (360 \div NumCandidates) * (i + 1)
        point == calculateIntermediatePoint(startPoint, angle,
                                            IntermediateDistanceMeters(desiredKm))
    IN  IF point = Null THEN Null
        ELSE [ origin |-> startPoint, destination |-> startPoint, waypoint |-> point ]

\* The request built for waypoint i.
Request(startPoint, desiredKm, i) ==
    LET angle == (360 \div NumCandidates) * i
        point == calculateIntermediatePoint(startPoint, angle,
                                            IntermediateDistanceMeters(desiredKm))
    IN  IF point = Null THEN Null
        ELSE [ origin |-> startPoint, destination |-> startPoint, waypoint |-> point ]

\* candidatePromises: the waypoints whose promise was pushed, in push order.
CandidatePromises(e) ==
    LET pushed[k \in 0 .. NumCandidates] ==
            IF k = 0 THEN << >>
            ELSE IF e[k - 1].promise # "none" THEN Append(pushed[k - 1], k - 1)
                 ELSE pushed[k - 1]
    IN  pushed[NumCandidates]

\* Variant of AllSettled that is satisfied by the first promise to settle.
AnySettled(e) ==
    \/ \A i \in Waypoints : e[i].promise = "none"
    \/ \E i \in Waypoints : e[i].promise \in { "fulfilled", "rejected" }

\* Promise.allSettled(candidatePromises) resolves once no promise is pending.
AllSettled(e) == \A i \in Waypoints : e[i].promise # "pending"

\* Variant of AllSettledResults that lists the promises fulfilled with a
\* route first, in the order in which they were fulfilled.
AllSettledResultsInCompletionOrder(e, order) ==
    LET cp   == CandidatePromises(e)
        rest == SelectSeq(cp, LAMBDA i : \A k \in 1 .. Len(order) : order[k] # i)
        seq  == order \o rest
    IN  [ k \in 1 .. Len(seq) |-> [ status |-> e[seq[k]].promise, value |-> e[seq[k]].value ] ]

\* The array Promise.allSettled resolves with: one entry per promise, in the
\* order of candidatePromises, whatever the order `order` in which they settled.
AllSettledResults(e, order) ==
    LET cp == CandidatePromises(e)
    IN  [ k \in 1 .. Len(cp) |-> [ status |-> e[cp[k]].promise, value |-> e[cp[k]].value ] ]

\* results.filter(fulfilled with a non-null value).map(value)
ValidRoutes(results) ==
    LET kept == SelectSeq(results, LAMBDA r : r.status = "fulfilled" /\ r.value # Null)
    IN  [ k \in 1 .. Len(kept) |-> kept[k].value ]

\* Variant of InTolerance that leaves the two bounds out.
InToleranceOpen(r, desiredKm) ==
    /\ r.distanceKm * 100 > desiredKm * (100 - DISTANCE_TOLERANCE_PERCENT)
    /\ r.distanceKm * 100 < desiredKm * (100 + DISTANCE_TOLERANCE_PERCENT)

\* minDesiredKm <= r.distanceKm <= maxDesiredKm, both sides scaled by 100.
InTolerance(r, desiredKm) ==
    /\ r.distanceKm * 100 >= desiredKm * (100 - DISTANCE_TOLERANCE_PERCENT)
    /\ r.distanceKm * 100 <= desiredKm * (100 + DISTANCE_TOLERANCE_PERCENT)

\* Variant of CompareInTolerance that ranks by deviation before elevation gain.
CompareInToleranceDistanceFirst(a, b, desiredKm) ==
    IF Abs(a.distanceKm - desiredKm) # Abs(b.distanceKm - desiredKm)
    THEN Abs(a.distanceKm - desiredKm) - Abs(b.distanceKm - desiredKm)
    ELSE a.elevationGainM - b.elevationGainM

\* Comparator of routesInTolerance.sort: elevation gain, then deviation.
CompareInTolerance(a, b, desiredKm) ==
    IF a.elevationGainM # b.elevationGainM
    THEN a.elevationGainM - b.elevationGainM
    ELSE Abs(a.distanceKm - desiredKm) - Abs(b.distanceKm - desiredKm)

\* Variant of CompareFallback that ranks by elevation gain before deviation.
CompareFallbackElevationFirst(a, b, desiredKm) ==
    IF a.elevationGainM # b.elevationGainM
    THEN a.elevationGainM - b.elevationGainM
    ELSE Abs(a.distanceKm - desiredKm) - Abs(b.distanceKm - desiredKm)

\* Comparator of validRoutes.sort: deviation, then elevation gain.
CompareFallback(a, b, desiredKm) ==
    LET distDiffA == Abs(a.distanceKm - desiredKm)
        distDiffB == Abs(b.distanceKm - desiredKm)
    IN  IF distDiffA # distDiffB
        THEN distDiffA - distDiffB
        ELSE a.elevationGainM - b.elevationGainM

\* The elements of an array.
Elements(s) == { s[k] : k \in 1 .. Len(s) }

\* Variant of ArraySort that places an element before the elements it ties with.
ArraySortTiesReversed(s, compare) ==
    LET sorted[k \in 0 .. Len(s)] ==
            IF k = 0 THEN << >>
            ELSE LET done == sorted[k - 1]
                     x    == s[k]
                     p    == Cardinality({ j \in 1 .. Len(done) : compare[done[j], x] < 0 })
                 IN  SubSeq(done, 1, p) \o << x >> \o SubSeq(done, p + 1, Len(done))
    IN  sorted[Len(s)]

\* Array.prototype.sort with a comparator, given as the function compare on
\* pairs of elements: a stable sort.  Each element is inserted behind every
\* element already placed that does not compare greater.
ArraySort(s, compare) ==
    LET sorted[k \in 0 .. Len(s)] ==
            IF k = 0 THEN << >>
            ELSE LET done == sorted[k - 1]
                     x    == s[k]
                     p    == Cardinality({ j \in 1 .. Len(done) : compare[done[j], x] <= 0 })
                 IN  SubSeq(done, 1, p) \o << x >> \o SubSeq(done, p + 1, Len(done))
    IN  sorted[Len(s)]

\* validRoutes.filter(within the tolerance)
RoutesInTolerance(routes, desiredKm) ==
    SelectSeq(routes, LAMBDA r : InTolerance(r, desiredKm))

\* routesInTolerance.sort(...)
SortInTolerance(routes, desiredKm) ==
    ArraySort(routes, [ a \in Elements(routes), b \in Elements(routes) |->
                          CompareInTolerance(a, b, desiredKm) ])

\* validRoutes.sort(...)
SortFallback(routes, desiredKm) ==
    ArraySort(routes, [ a \in Elements(routes), b \in Elements(routes) |->
                          CompareFallback(a, b, desiredKm) ])

\* Variant of SelectOptimal without the fallback branch.
SelectOptimalWithoutFallback(routes, desiredKm) ==
    IF Len(RoutesInTolerance(routes, desiredKm)) > 0
    THEN SortInTolerance(RoutesInTolerance(routes, desiredKm), desiredKm)[1]
    ELSE Null

\* The selection of findOptimalLoopRoute on the valid routes.
SelectOptimal(routes, desiredKm) ==
    IF Len(routes) = 0 THEN Null
    ELSE IF Len(RoutesInTolerance(routes, desiredKm)) > 0
    THEN SortInTolerance(RoutesInTolerance(routes, desiredKm), desiredKm)[1]
    ELSE SortFallback(routes, desiredKm)[1]

\* validRoutes once the selection has run: the fallback sorts it in place.
ValidRoutesAfterSelection(routes, desiredKm) ==
    IF Len(RoutesInTolerance(routes, desiredKm)) > 0 THEN routes
    ELSE SortFallback(routes, desiredKm)

\* Variant of Launched that stops after the first waypoint, as a loop that
\* awaited each promise before building the next request would at its await.
LaunchedFirstOnly(startPoint, desiredKm, throwers) ==
    [ i \in Waypoints |->
        LET request == Request(startPoint, desiredKm, i)
        IN  IF request = Null \/ i > 0 THEN IdleEvaluation
            ELSE [ IdleEvaluation EXCEPT
                     !.phase        = IF i \in throwers THEN "routeThrew" ELSE "route",
                     !.promise      = IF i \in throwers THEN "rejected" ELSE "pending",
                     !.request      = request,
                     !.routeQueries = 1 ] ]

\* The promise executor of waypoint i: builds the request and calls
\* directionsService.route; a call that throws rejects the promise.  A
\* waypoint without an intermediate point is skipped.
Launched(startPoint, desiredKm, throwers) ==
    [ i \in Waypoints |->
        LET request == Request(startPoint, desiredKm, i)
        IN  IF request = Null THEN IdleEvaluation
            ELSE [ phase            |-> IF i \in throwers THEN "routeThrew" ELSE "route",
                   promise          |-> IF i \in throwers THEN "rejected" ELSE "pending",
                   value            |-> Null,
                   request          |-> request,
                   result           |-> Null,
                   routeQueries     |-> 1,
                   elevationQueries |-> 0,
                   samples          |-> 0,
                   routeStatus      |-> "",
                   warnings         |-> 0 ] ]

\* Variant of AfterRoute without the check for a zero distance.
AfterRouteWithoutZeroCheck(e0, resp, elevationThrows) ==
    IF resp.status = "OK" /\ resp.result # Null /\ Len(resp.result.routes) > 0
    THEN LET route == resp.result.routes[1]
             e     == [ e0 EXCEPT !.routeStatus = resp.status ]
         IN  IF route.overview_path < 2
             THEN [ e EXCEPT !.phase = "shortPath", !.promise = "fulfilled" ]
             ELSE IF elevationThrows
             THEN [ e EXCEPT !.phase = "elevationThrew",
                             !.elevationQueries = @ + 1 ]
             ELSE [ e EXCEPT !.phase = "elevation",
                             !.result = resp.result,
                             !.elevationQueries = @ + 1,
                             !.samples = Min(ELEVATION_SAMPLES, route.overview_path) ]
    ELSE [ e0 EXCEPT !.phase = "noRoute", !.promise = "fulfilled",
                     !.routeStatus = resp.status,
                     !.warnings = IF resp.status # "ZERO_RESULTS" THEN @ + 1 ELSE @ ]

\* Variant of AfterRoute without the check of the number of path points.
AfterRouteWithoutShortPathCheck(e0, resp, elevationThrows) ==
    IF resp.status = "OK" /\ resp.result # Null /\ Len(resp.result.routes) > 0
    THEN LET route == resp.result.routes[1]
             e     == [ e0 EXCEPT !.routeStatus = resp.status ]
             actualDistanceMeters == ActualDistanceMeters(route)
         IN  IF actualDistanceMeters = 0
             THEN [ e EXCEPT !.phase = "zeroDistance", !.promise = "fulfilled" ]
             ELSE IF elevationThrows
             THEN [ e EXCEPT !.phase = "elevationThrew",
                             !.elevationQueries = @ + 1 ]
             ELSE [ e EXCEPT !.phase = "elevation",
                             !.result = resp.result,
                             !.elevationQueries = @ + 1,
                             !.samples = Min(ELEVATION_SAMPLES, route.overview_path) ]
    ELSE [ e0 EXCEPT !.phase = "noRoute", !.promise = "fulfilled",
                     !.routeStatus = resp.status,
                     !.warnings = IF resp.status # "ZERO_RESULTS" THEN @ + 1 ELSE @ ]

\* Variant of AfterRoute that warns of every request without a route.
AfterRouteWarnsAlways(e0, resp, elevationThrows) ==
    IF resp.status = "OK" /\ resp.result # Null /\ Len(resp.result.routes) > 0
    THEN LET route == resp.result.routes[1]
             e     == [ e0 EXCEPT !.routeStatus = resp.status ]
             actualDistanceMeters == ActualDistanceMeters(route)
         IN  IF actualDistanceMeters = 0
             THEN [ e EXCEPT !.phase = "zeroDistance", !.promise = "fulfilled" ]
             ELSE IF route.overview_path < 2
             THEN [ e EXCEPT !.phase = "shortPath", !.promise = "fulfilled" ]
             ELSE IF elevationThrows
             THEN [ e EXCEPT !.phase = "elevationThrew",
                             !.elevationQueries = @ + 1 ]
             ELSE [ e EXCEPT !.phase = "elevation",
                             !.result = resp.result,
                             !.elevationQueries = @ + 1,
                             !.samples = Min(ELEVATION_SAMPLES, route.overview_path) ]
    ELSE [ e0 EXCEPT !.phase = "noRoute", !.promise = "fulfilled",
                     !.routeStatus = resp.status,
                     !.warnings = @ + 1 ]

\* Variant of AfterRoute that asks for one sample per point of the path.
AfterRouteWithoutSampleLimit(e0, resp, elevationThrows) ==
    IF resp.status = "OK" /\ resp.result # Null /\ Len(resp.result.routes) > 0
    THEN LET route == resp.result.routes[1]
             e     == [ e0 EXCEPT !.routeStatus = resp.status ]
             actualDistanceMeters == ActualDistanceMeters(route)
         IN  IF actualDistanceMeters = 0
             THEN [ e EXCEPT !.phase = "zeroDistance", !.promise = "fulfilled" ]
             ELSE IF route.overview_path < 2
             THEN [ e EXCEPT !.phase = "shortPath", !.promise = "fulfilled" ]
             ELSE IF elevationThrows
             THEN [ e EXCEPT !.phase = "elevationThrew",
                             !.elevationQueries = @ + 1 ]
             ELSE [ e EXCEPT !.phase = "elevation",
                             !.result = resp.result,
                             !.elevationQueries = @ + 1,
                             !.samples = route.overview_path ]
    ELSE [ e0 EXCEPT !.phase = "noRoute", !.promise = "fulfilled",
                     !.routeStatus = resp.status,
                     !.warnings = IF resp.status # "ZERO_RESULTS" THEN @ + 1 ELSE @ ]

\* The callback given to directionsService.route, on response resp;
\* elevationThrows says whether the call of getElevationForPath throws.
AfterRoute(e0, resp, elevationThrows) ==
    IF resp.status = "OK" /\ resp.result # Null /\ Len(resp.result.routes) > 0
    THEN LET route == resp.result.routes[1]
             e     == [ e0 EXCEPT !.routeStatus = resp.status ]
             actualDistanceMeters == ActualDistanceMeters(route)
         IN  IF actualDistanceMeters = 0
             THEN [ e EXCEPT !.phase = "zeroDistance", !.promise = "fulfilled" ]
             ELSE IF route.overview_path < 2
             THEN [ e EXCEPT !.phase = "shortPath", !.promise = "fulfilled" ]
             ELSE IF elevationThrows
             THEN [ e EXCEPT !.phase = "elevationThrew",
                             !.elevationQueries = @ + 1 ]
             ELSE [ e EXCEPT !.phase = "elevation",
                             !.result = resp.result,
                             !.elevationQueries = @ + 1,
                             !.samples = Min(ELEVATION_SAMPLES, route.overview_path) ]
    ELSE [ e0 EXCEPT !.phase = "noRoute", !.promise = "fulfilled",
                     !.routeStatus = resp.status,
                     !.warnings = IF resp.status # "ZERO_RESULTS" THEN @ + 1 ELSE @ ]

\* The callback given to elevationService.getElevationForPath.
AfterElevation(e, resp) ==
    IF resp.status = "OK" /\ resp.results # NoResults
    THEN [ e EXCEPT !.phase = "candidate",
                    !.promise = "fulfilled",
                    !.value = [ route          |-> e.result,
                                distanceKm     |-> DistanceKm(ActualDistanceMeters(e.result.routes[1])),
                                elevationGainM |-> calculateCumulativeElevation(resp.results) ],
                    !.result = Null,
                    !.samples = 0 ]
    ELSE [ e EXCEPT !.phase = "elevationFailed", !.promise = "fulfilled",
                    !.result = Null, !.samples = 0,
                    !.warnings = @ + 1 ]

(***************************************************************************)
(* App                                                                     *)
(***************************************************************************)
\* The stats handleGenerateCourse shows for a route.
RouteStats(route) ==
    [ totalDistanceKm          |-> ToFixed(route.distanceKm, 100),
      cumulativeElevationGainM |-> ToFixed(route.elevationGainM, 1),
      estimatedTimeMin         |->
          ToFixed(route.distanceKm * DEFAULT_PACE_MIN_PER_KM, 1000) \div 1000 ]

\* findOptimalLoopRoute from its await on, and handleGenerateCourse from its
\* await on: the selection, then the branches on its result and the finally
\* block.  courseNow and errorNow are the App state the handler leaves alone.
Resume(e, order, desiredKm, courseNow, errorNow) ==
    LET valid    == ValidRoutes(AllSettledResults(e, order))
        selected == SelectOptimal(valid, desiredKm)
    IN  /\ validRoutes' = ValidRoutesAfterSelection(valid, desiredKm)
        /\ optimalRouteData' = selected
        /\ outcome' = "returned"
        /\ pc' = "idle"
        /\ completionOrder' = << >>
        /\ isLoading' = FALSE
        /\ IF selected # Null
           THEN /\ generatedCourse' = [ directionsResult |-> selected.route,
                                        stats |-> RouteStats(selected) ]
                /\ error' = errorNow
           ELSE /\ generatedCourse' = courseNow
                /\ error' = MsgNoCourse

\* After a step that leaves the evaluations as e: the call resumes if it is
\* suspended and every promise has settled, and stays as it is otherwise.
Settle(e, order) ==
    IF pc = "awaiting" /\ AllSettled(e)
    THEN Resume(e, order, call.desiredDistanceKm, generatedCourse, error)
    ELSE /\ completionOrder' = order
         /\ UNCHANGED << validRoutes, optimalRouteData, outcome, pc, isLoading,
                         generatedCourse, error >>

\* Variant of PreconditionError without the check of the distance.
PreconditionErrorStartPointOnly ==
    IF userStartPoint = Null THEN MsgNoStartPoint ELSE NoError

\* The checks handleGenerateCourse makes before it starts: the message of the
\* check that fails, or none.
PreconditionError ==
    IF userStartPoint = Null THEN MsgNoStartPoint
    ELSE IF desiredDistanceKm <= 0 THEN MsgBadDistance
    ELSE NoError

\* handleGenerateCourse up to its await, with findOptimalLoopRoute up to its
\* await; throwers are the waypoints whose directionsService.route call throws.
handleGenerateCourse(throwers) ==
    /\ pc = "idle"
    /\ UNCHANGED << googleMaps, userStartPoint, desiredDistanceKm, geoRequests >>
    /\ UNCHANGED functionVars
    /\ IF PreconditionError # NoError
       THEN /\ error' = PreconditionError
            /\ outcome' = "refused"
            /\ UNCHANGED << generatedCourse, isLoading, pc, call, ev, completionOrder,
                            validRoutes, optimalRouteData >>
       ELSE IF googleMaps = "absent"
       THEN \* findOptimalLoopRoute throws; the catch and finally blocks run
            /\ call' = [ startPoint |-> userStartPoint,
                         desiredDistanceKm |-> desiredDistanceKm ]
            /\ ev' = [ i \in Waypoints |-> IdleEvaluation ]
            /\ completionOrder' = << >>
            /\ validRoutes' = << >>
            /\ optimalRouteData' = Null
            /\ outcome' = "threw"
            /\ error' = MsgApiNotLoaded
            /\ generatedCourse' = Null
            /\ isLoading' = FALSE
            /\ pc' = "idle"
       ELSE LET e == Launched(userStartPoint, desiredDistanceKm, throwers)
            IN  /\ call' = [ startPoint |-> userStartPoint,
                             desiredDistanceKm |-> desiredDistanceKm ]
                /\ ev' = e
                /\ IF AllSettled(e)
                   THEN Resume(e, << >>, desiredDistanceKm, Null, NoError)
                   ELSE /\ pc' = "awaiting"
                        /\ completionOrder' = << >>
                        /\ isLoading' = TRUE
                        /\ error' = NoError
                        /\ generatedCourse' = Null
                        /\ outcome' = "pending"
                        /\ validRoutes' = << >>
                        /\ optimalRouteData' = Null

\* handleDistanceChange, reached from the distance input, which is disabled
\* while isLoading.
handleDistanceChange(newDistance) ==
    /\ ~isLoading
    /\ desiredDistanceKm' = newDistance
    /\ UNCHANGED << googleMaps, userStartPoint, generatedCourse, isLoading, error, pc,
                    call, ev, completionOrder, outcome, validRoutes, optimalRouteData,
                    geoRequests >>
    /\ UNCHANGED functionVars

\* initializeMapAndMarker: the first start point, from geolocation or the default.
initializeMapAndMarker(point) ==
    /\ userStartPoint = Null
    /\ userStartPoint' = point
    /\ UNCHANGED << googleMaps, desiredDistanceKm, generatedCourse, isLoading, error, pc,
                    call, ev, completionOrder, outcome, validRoutes, optimalRouteData,
                    geoRequests >>
    /\ UNCHANGED functionVars

\* The Directions service answers the request of waypoint i.
RouteCallback(i, resp, elevationThrows) ==
    /\ ev[i].phase = "route"
    /\ elevationThrows => AfterRoute(ev[i], resp, FALSE).phase = "elevation"
    /\ LET e == [ ev EXCEPT ![i] = AfterRoute(ev[i], resp, elevationThrows) ]
       IN  /\ ev' = e
           /\ Settle(e, completionOrder)
    /\ UNCHANGED << googleMaps, userStartPoint, desiredDistanceKm, call, geoRequests >>
    /\ UNCHANGED functionVars

\* The Elevation service answers the request of waypoint i.
ElevationCallback(i, resp) ==
    /\ ev[i].phase = "elevation"
    /\ LET e == [ ev EXCEPT ![i] = AfterElevation(ev[i], resp) ]
           order == IF e[i].value # Null THEN Append(completionOrder, i)
                    ELSE completionOrder
       IN  /\ ev' = e
           /\ Settle(e, order)
    /\ UNCHANGED << googleMaps, userStartPoint, desiredDistanceKm, call, geoRequests >>
    /\ UNCHANGED functionVars

\* The waypoints whose directionsService.route call throws, in one call:
\* none, any single one, or all of them.
ThrowerSets == { S \in SUBSET Waypoints : Cardinality(S) <= 1 } \cup { Waypoints }

Init ==
    /\ googleMaps \in { "absent", "core", "full" }
    /\ userStartPoint = Null
    /\ desiredDistanceKm = 5000
    /\ generatedCourse = Null
    /\ isLoading = FALSE
    /\ error = NoError
    /\ pc = "idle"
    /\ call = Null
    /\ ev = [ i \in Waypoints |-> IdleEvaluation ]
    /\ completionOrder = << >>
    /\ outcome = "none"
    /\ validRoutes = << >>
    /\ optimalRouteData = Null
    /\ geoRequests = 0
    /\ overlappingRuns = 0
    /\ elevationResults = << >>
    /\ elevationGainM = NoGain

Next ==
    \/ \E throwers \in ThrowerSets : handleGenerateCourse(throwers)
    \/ \E d \in DistanceInputs : handleDistanceChange(d)
    \/ \E p \in StartPoints : initializeMapAndMarker(p)
    \/ \E i \in Waypoints : \E resp \in RouteResponses(ev[i].request) :
           \E elevationThrows \in BOOLEAN : RouteCallback(i, resp, elevationThrows)
    \/ \E i \in Waypoints : \E resp \in ElevationResponses(ev[i].samples) :
           ElevationCallback(i, resp)

Spec == Init /\ [][Next]_vars

(***************************************************************************)
(* The App with all its handlers, the marker and the two buttons.  The     *)
(* services answer a route query with no result or with one route, and an  *)
(* elevation query with one profile, so that a call ends with a course or  *)
(* with none.                                                              *)
(***************************************************************************)
\* handleMarkerDragEnd, reached from the dragend listener of the start
\* marker, which exists once there is a start point.
handleMarkerDragEnd(newPosition) ==
    /\ userStartPoint # Null
    /\ userStartPoint' = newPosition
    /\ generatedCourse' = Null
    /\ error' = NoError
    /\ UNCHANGED << googleMaps, desiredDistanceKm, isLoading, pc, call, ev,
                    completionOrder, outcome, validRoutes, optimalRouteData, geoRequests >>
    /\ UNCHANGED functionVars

\* handleGoToCurrentLocation; supported stands for
\* navigator.geolocation && mapRef.current.
handleGoToCurrentLocation(supported) ==
    /\ IF supported
       THEN /\ geoRequests < MaxGeoRequests
            /\ isLoading' = TRUE
            /\ geoRequests' = geoRequests + 1
            /\ error' = error
       ELSE /\ error' = MsgGeoUnsupported
            /\ UNCHANGED << isLoading, geoRequests >>
    /\ UNCHANGED << googleMaps, userStartPoint, desiredDistanceKm, generatedCourse, pc,
                    call, ev, completionOrder, outcome, validRoutes, optimalRouteData >>
    /\ UNCHANGED functionVars

\* The success callback of handleGoToCurrentLocation.
GeolocationSuccess(position) ==
    /\ geoRequests > 0
    /\ geoRequests' = geoRequests - 1
    /\ userStartPoint' = position
    /\ generatedCourse' = Null
    /\ error' = NoError
    /\ isLoading' = FALSE
    /\ UNCHANGED << googleMaps, desiredDistanceKm, pc, call, ev, completionOrder,
                    outcome, validRoutes, optimalRouteData >>
    /\ UNCHANGED functionVars

\* The error callback of handleGoToCurrentLocation.
GeolocationError ==
    /\ geoRequests > 0
    /\ geoRequests' = geoRequests - 1
    /\ error' = MsgGeoFailed
    /\ isLoading' = FALSE
    /\ UNCHANGED << googleMaps, userStartPoint, desiredDistanceKm, generatedCourse, pc,
                    call, ev, completionOrder, outcome, validRoutes, optimalRouteData >>
    /\ UNCHANGED functionVars

\* The Create Course button of ControlPanel is enabled.
CreateCourseEnabled == ~(isLoading \/ desiredDistanceKm <= 0)

\* A click on the Create Course button while no run is at its await.
CreateCourseClick(throwers) ==
    /\ CreateCourseEnabled
    /\ handleGenerateCourse(throwers)

\* A click on the Create Course button while a run is at its await:
\* handleGenerateCourse up to its await.  The run passes both checks, and
\* the queries of its findOptimalLoopRoute call are not followed one by one.
OverlappingClick ==
    /\ CreateCourseEnabled
    /\ pc = "awaiting"
    /\ userStartPoint # Null
    /\ overlappingRuns < MaxOverlappingRuns
    /\ overlappingRuns' = overlappingRuns + 1
    /\ isLoading' = TRUE
    /\ error' = NoError
    /\ generatedCourse' = Null
    /\ UNCHANGED << googleMaps, userStartPoint, desiredDistanceKm, pc, call, ev,
                    completionOrder, outcome, validRoutes, optimalRouteData, geoRequests,
                    elevationResults, elevationGainM >>

\* A run started by OverlappingClick resumes from its await, every route
\* query of its call having been answered with no result:
\* findOptimalLoopRoute returns null.
OverlappingReturnsNull ==
    /\ overlappingRuns > 0
    /\ overlappingRuns' = overlappingRuns - 1
    /\ error' = MsgNoCourse
    /\ isLoading' = FALSE
    /\ UNCHANGED << googleMaps, userStartPoint, desiredDistanceKm, generatedCourse, pc,
                    call, ev, completionOrder, outcome, validRoutes, optimalRouteData,
                    geoRequests, elevationResults, elevationGainM >>

AppRouteResponses(request) ==
    { r \in RouteResponses(request) :
        \/ r.status = "ZERO_RESULTS"
        \/ /\ r.result # Null
           /\ r.result.routes = << [ legs |-> <<2500, 2500>>, overview_path |-> 3 ] >> }

AppElevationResponses(samples) ==
    { r \in ElevationResponses(samples) :
        r.status = "OK" /\ r.results # NoResults /\ r.results[1].elevation = 10 }

AppNext ==
    \/ \E throwers \in { {} } : CreateCourseClick(throwers)
    \/ OverlappingClick
    \/ OverlappingReturnsNull
    \/ \E d \in DistanceInputs : handleDistanceChange(d)
    \/ \E p \in StartPoints : initializeMapAndMarker(p)
    \/ \E p \in MarkerPositions : handleMarkerDragEnd(p)
    \/ \E supported \in BOOLEAN : handleGoToCurrentLocation(supported)
    \/ \E p \in StartPoints : GeolocationSuccess(p)
    \/ GeolocationError
    \/ \E i \in Waypoints : \E resp \in AppRouteResponses(ev[i].request) :
           RouteCallback(i, resp, FALSE)
    \/ \E i \in Waypoints : \E resp \in AppElevationResponses(ev[i].samples) :
           ElevationCallback(i, resp)

AppSpec == Init /\ [][AppNext]_vars

(***************************************************************************)
(* calculateCumulativeElevation on its own, over every array of at most    *)
(* MaxSamples results.                                                     *)
(***************************************************************************)
ElevationResultArrays ==
    UNION { [ 1 .. n -> { [ elevation |-> v ] : v \in 0 .. MaxElevation } ] :
              n \in 0 .. MaxSamples }

\* The App before the map has loaded and before any call.
AppAtStart ==
    /\ userStartPoint = Null
    /\ desiredDistanceKm = 5000
    /\ generatedCourse = Null
    /\ isLoading = FALSE
    /\ error = NoError
    /\ pc = "idle"
    /\ call = Null
    /\ ev = [ i \in Waypoints |-> IdleEvaluation ]
    /\ completionOrder = << >>
    /\ outcome = "none"
    /\ validRoutes = << >>
    /\ optimalRouteData = Null
    /\ geoRequests = 0
    /\ overlappingRuns = 0

ElevationInit ==
    /\ googleMaps = "full"
    /\ AppAtStart
    /\ elevationResults \in ElevationResultArrays
    /\ elevationGainM = NoGain

\* const elevationGainM = calculateCumulativeElevation(elevationResults)
CumulativeElevationCall ==
    /\ elevationGainM = NoGain
    /\ elevationGainM' = calculateCumulativeElevation(elevationResults)
    /\ UNCHANGED << googleMaps, userStartPoint, desiredDistanceKm, generatedCourse,
                    isLoading, error, pc, call, ev, completionOrder, outcome,
                    validRoutes, optimalRouteData, geoRequests, overlappingRuns,
                    elevationResults >>

ElevationNext == CumulativeElevationCall

ElevationSpec == ElevationInit /\ [][ElevationNext]_vars

(***************************************************************************)
(* The selection of findOptimalLoopRoute on its own, over arrays of at     *)
(* most MaxRoutes valid routes whose distances lie on and next to the      *)
(* bounds of the acceptable range of the two desired distances.            *)
(***************************************************************************)
SelectionDistances == { 3749, 3750, 3751, 6250, 6251 }
SelectionDesiredDistances == { 3000, 5000 }

SelectionRoutes ==
    { [ route |-> Null, distanceKm |-> d, elevationGainM |-> g ] :
        d \in SelectionDistances, g \in { 5, 10 } }

SelectionInit ==
    /\ googleMaps = "full"
    /\ \E p \in StartPoints : \E d \in SelectionDesiredDistances :
          /\ userStartPoint = p
          /\ desiredDistanceKm = d
          /\ call = [ startPoint |-> p, desiredDistanceKm |-> d ]
    /\ generatedCourse = Null
    /\ isLoading = TRUE
    /\ error = NoError
    /\ pc = "selecting"
    /\ ev = [ i \in Waypoints |-> IdleEvaluation ]
    /\ completionOrder = << >>
    /\ outcome = "pending"
    /\ validRoutes \in UNION { [ 1 .. n -> SelectionRoutes ] : n \in 0 .. MaxRoutes }
    /\ optimalRouteData = Null
    /\ geoRequests = 0
    /\ overlappingRuns = 0
    /\ elevationResults = << >>
    /\ elevationGainM = NoGain

\* findOptimalLoopRoute from the filter of validRoutes to its return.
SelectionCall ==
    /\ pc = "selecting"
    /\ optimalRouteData' = SelectOptimal(validRoutes, call.desiredDistanceKm)
    /\ validRoutes' = ValidRoutesAfterSelection(validRoutes, call.desiredDistanceKm)
    /\ outcome' = "returned"
    /\ pc' = "selected"
    /\ UNCHANGED << googleMaps, userStartPoint, desiredDistanceKm, generatedCourse,
                    isLoading, error, call, ev, completionOrder, geoRequests >>
    /\ UNCHANGED functionVars

SelectionNext == SelectionCall

SelectionSpec == SelectionInit /\ [][SelectionNext]_vars

(***************************************************************************)
(* The route callback on overview paths of every length around            *)
(* ELEVATION_SAMPLES: a call with a start point and a distance, whose      *)
(* route queries are answered with no result or with a route of one of     *)
(* these lengths, and whose elevation queries are answered with a failure  *)
(* or with one result per sample.                                          *)
(***************************************************************************)
\* Numbers of points of overview_path: too few, the fewest accepted, and
\* from just under ELEVATION_SAMPLES to MaxPathExcess points over it.
SamplingPathLengths ==
    { 1, 2 } \cup ((ELEVATION_SAMPLES - 1) .. (ELEVATION_SAMPLES + MaxPathExcess))

SamplingRouteResponses(request) ==
    { [status |-> "ZERO_RESULTS", result |-> Null] }
    \cup { [status |-> "OK",
            result |-> [request |-> request,
                        routes  |-> << [legs |-> <<2500, 2500>>, overview_path |-> n] >>]] :
              n \in SamplingPathLengths }

\* The Elevation service fails, or returns one result per sample, rising
\* and falling by turns.
SamplingElevationResponses(samples) ==
    { [status |-> "UNKNOWN_ERROR", results |-> NoResults],
      [status |-> "OK",
       results |-> [k \in 1 .. samples |-> [elevation |-> (k % 2) * 5]]] }

SamplingInit ==
    /\ googleMaps = "full"
    /\ userStartPoint \in StartPoints
    /\ desiredDistanceKm = 5000
    /\ generatedCourse = Null
    /\ isLoading = FALSE
    /\ error = NoError
    /\ pc = "idle"
    /\ call = Null
    /\ ev = [ i \in Waypoints |-> IdleEvaluation ]
    /\ completionOrder = << >>
    /\ outcome = "none"
    /\ validRoutes = << >>
    /\ optimalRouteData = Null
    /\ geoRequests = 0
    /\ overlappingRuns = 0
    /\ elevationResults = << >>
    /\ elevationGainM = NoGain

SamplingNext ==
    \/ \E throwers \in { {} } : handleGenerateCourse(throwers)
    \/ \E i \in Waypoints : \E resp \in SamplingRouteResponses(ev[i].request) :
           RouteCallback(i, resp, FALSE)
    \/ \E i \in Waypoints : \E resp \in SamplingElevationResponses(ev[i].samples) :
           ElevationCallback(i, resp)

SamplingSpec == SamplingInit /\ [][SamplingNext]_vars

\* A callback of an outstanding query is invoked.
Callback ==
    \E i \in Waypoints :
        \/ /\ ev[i].phase = "route"
           /\ \E resp \in RouteResponses(ev[i].request) :
                 \E elevationThrows \in BOOLEAN : RouteCallback(i, resp, elevationThrows)
        \/ /\ ev[i].phase = "elevation"
           /\ \E resp \in ElevationResponses(ev[i].samples) : ElevationCallback(i, resp)

\* The services answer: while a query is outstanding, a callback is
\* eventually invoked. The continuation of the call runs in the step of the
\* last callback.
Fairness == WF_vars(Callback)

FairSpec == Init /\ [][Next]_vars /\ Fairness

(***************************************************************************)
(* Properties.                                                             *)
(***************************************************************************)
\* The latest call of findOptimalLoopRoute has returned.
Returned == outcome = "returned"

\* The candidates the evaluations of the latest call have yielded.
Yielded == { ev[i].value : i \in { j \in Waypoints : ev[j].phase = "candidate" } }

\* |distanceKm - desiredKm| of a candidate, for the latest call.
Deviation(c) == Abs(c.distanceKm - call.desiredDistanceKm)

\* The acceptable range of the latest call: within a quarter of the desired
\* distance, both ends included.
Acceptable(c) ==
    /\ 4 * c.distanceKm >= 3 * call.desiredDistanceKm
    /\ 4 * c.distanceKm <= 5 * call.desiredDistanceKm

AcceptableYielded == { c \in Yielded : Acceptable(c) }

\* C1: when some yielded candidate is within the acceptable range, the
\* returned candidate is within the range, has the least elevation gain of
\* the candidates within the range, and among those of that gain the least
\* deviation from the desired distance.
C1_InToleranceLowestElevation ==
    (Returned /\ AcceptableYielded # {}) =>
        /\ optimalRouteData \in AcceptableYielded
        /\ \A c \in AcceptableYielded :
              /\ optimalRouteData.elevationGainM <= c.elevationGainM
              /\ c.elevationGainM = optimalRouteData.elevationGainM
                    => Deviation(optimalRouteData) <= Deviation(c)

\* A call has returned a candidate within the range although another one
\* within the range is closer to the desired distance and a candidate outside
\* the range was yielded too.
C1_Witness ==
    /\ Returned
    /\ optimalRouteData \in AcceptableYielded
    /\ \E a \in AcceptableYielded : Deviation(a) < Deviation(optimalRouteData)
    /\ Yielded \ AcceptableYielded # {}

\* C2: when candidates were yielded and none is within the acceptable range,
\* the returned candidate has the least deviation of all of them, and among
\* those of that deviation the least elevation gain.
C2_FallbackClosestDistance ==
    (Returned /\ Yielded # {} /\ AcceptableYielded = {}) =>
        /\ optimalRouteData \in Yielded
        /\ \A c \in Yielded :
              /\ Deviation(optimalRouteData) <= Deviation(c)
              /\ Deviation(c) = Deviation(optimalRouteData)
                    => optimalRouteData.elevationGainM <= c.elevationGainM

\* A call has returned the closest of several candidates outside the range
\* although a farther one has a lower elevation gain.
C2_Witness ==
    /\ Returned
    /\ AcceptableYielded = {}
    /\ optimalRouteData \in Yielded
    /\ \E c \in Yielded : /\ c.elevationGainM < optimalRouteData.elevationGainM
                          /\ Deviation(c) > Deviation(optimalRouteData)

\* The evaluations of the latest call that ended without a candidate.
FailedPhases == { "routeThrew", "noRoute", "zeroDistance", "shortPath", "elevationFailed" }

\* C3: a call whose evaluations yielded no candidate returns null, and a call
\* returns null only when no candidate was collected; the only throw of
\* findOptimalLoopRoute is the one made before any query, when the Maps API
\* is absent.
C3_NoneFoundIffEmpty ==
    /\ Returned => ( (optimalRouteData = Null) <=> (Yielded = {}) )
    /\ Returned => ( (optimalRouteData = Null) <=> (Len(validRoutes) = 0) )
    /\ outcome = "threw" => googleMaps = "absent"

\* A call has returned null after every waypoint was evaluated and failed,
\* one of them at its elevation query.
C3_Witness ==
    /\ Returned
    /\ optimalRouteData = Null
    /\ \A i \in Waypoints : ev[i].phase \in FailedPhases
    /\ \E i \in Waypoints : ev[i].phase = "elevationFailed"
    /\ \E i \in Waypoints : ev[i].phase = "noRoute"

\* The candidates yielded by the latest call, by ascending waypoint.
YieldedInWaypointOrder ==
    LET upTo[k \in 0 .. NumCandidates] ==
            IF k = 0 THEN << >>
            ELSE IF ev[k - 1].phase = "candidate" THEN Append(upTo[k - 1], ev[k - 1].value)
                 ELSE upTo[k - 1]
    IN  upTo[NumCandidates]

\* No query of evaluation i is outstanding: it has not started, has yielded a
\* candidate, or has failed, by a failed query, a degenerate route or an
\* exception raised while issuing a query.
Ended(i) == ev[i].phase \notin { "route", "elevation" }

\* C4: once every evaluation of a call has ended, by a candidate or by any
\* failure, the call has returned, and its result is the selection over the
\* candidates of the waypoints that did not fail.
C4_FailuresAbsorbed ==
    (outcome \in { "pending", "returned" } /\ \A i \in Waypoints : Ended(i)) =>
        /\ Returned
        /\ optimalRouteData = SelectOptimal(YieldedInWaypointOrder, call.desiredDistanceKm)

\* C5: the result of a call is the selection over the candidates its waypoints
\* yielded, taken by ascending waypoint: it is the same for every order in
\* which the callbacks fired.
C5_CompletionOrderIrrelevant ==
    Returned =>
        optimalRouteData = SelectOptimal(YieldedInWaypointOrder, call.desiredDistanceKm)

\* A call has returned the candidate of a waypoint while a later waypoint
\* yielded a candidate with the same distance and the same elevation gain.
C5_Witness ==
    /\ Returned
    /\ \E i, j \in Waypoints :
          /\ i < j
          /\ ev[i].phase = "candidate" /\ ev[j].phase = "candidate"
          /\ optimalRouteData = ev[i].value
          /\ ev[j].value.distanceKm = ev[i].value.distanceKm
          /\ ev[j].value.elevationGainM = ev[i].value.elevationGainM
          /\ Acceptable(ev[i].value)

\* A check of handleGenerateCourse or of findOptimalLoopRoute fails.
PreconditionFails ==
    userStartPoint = Null \/ desiredDistanceKm <= 0 \/ googleMaps = "absent"

PreconditionMessages == { MsgNoStartPoint, MsgBadDistance, MsgApiNotLoaded }

\* C6: a request made without a start point, with a distance of 0 or less, or
\* without the Maps API starts no selection and issues no query, and ends with
\* an error message, not with a course or with the "no course" message.
C6_PreconditionFailureIsError ==
    [][ (pc = "idle" /\ PreconditionFails) =>
            /\ pc' = "idle"
            /\ \/ ev' = ev
               \/ \A i \in Waypoints : ev'[i].routeQueries = 0 /\ ev'[i].elevationQueries = 0
            /\ (outcome' # outcome \/ error' # error) =>
                  /\ outcome' \in { "refused", "threw" }
                  /\ error' \in PreconditionMessages
                  /\ generatedCourse' \in { generatedCourse, Null }
      ]_vars

\* A request with a distance of 0 has been refused, with a start point set and
\* the Maps API loaded.
C6_Witness ==
    /\ outcome = "refused"
    /\ error = MsgBadDistance
    /\ userStartPoint # Null
    /\ googleMaps = "full"

\* A request without a start point has been refused.
C6_WitnessNoStartPoint == outcome = "refused" /\ error = MsgNoStartPoint

\* A request without the Maps API has ended by the throw of findOptimalLoopRoute.
C6_WitnessNoApi ==
    /\ outcome = "threw"
    /\ error = MsgApiNotLoaded
    /\ \A i \in Waypoints : ev[i].routeQueries = 0

\* The invariant of a route candidate.
WellFormed(c) == c.distanceKm > 0 /\ c.route.routes[1].overview_path >= 2

\* C7: every candidate collected or returned has a positive distance and a
\* path of at least 2 points, and an evaluation whose route has no length or
\* fewer than 2 points yields no candidate and issues no elevation query.
C7_DegenerateRoutesDiscarded ==
    /\ \A i \in Waypoints :
          /\ ev[i].value # Null => WellFormed(ev[i].value)
          /\ ev[i].phase \in { "zeroDistance", "shortPath" } =>
                /\ ev[i].elevationQueries = 0
                /\ ev[i].value = Null
                /\ ev[i].promise = "fulfilled"
    /\ \A c \in Elements(validRoutes) : WellFormed(c)
    /\ optimalRouteData # Null => WellFormed(optimalRouteData)

\* A call has returned a candidate while one waypoint had a route without
\* length and another a route with a single point.
C7_Witness ==
    /\ Returned
    /\ optimalRouteData # Null
    /\ \E i \in Waypoints : ev[i].phase = "zeroDistance"
    /\ \E i \in Waypoints : ev[i].phase = "shortPath"

\* C8: a call never stays suspended once all its evaluations have completed
\* or failed: while it is suspended, a query of some waypoint is outstanding,
\* whose callback will resume it.
C8_NeverStaysSuspended ==
    pc = "awaiting" => \E i \in Waypoints : ~Ended(i)

\* An evaluation whose call of getElevationForPath threw: its promise stays
\* pending, and no callback is left to settle it.
Unanswered == \E i \in Waypoints : ev[i].phase = "elevationThrew"

\* Under FairSpec a suspended call returns unless a call of
\* getElevationForPath threw: no other path leaves a promise unsettled.
ReturnsUnlessUnanswered == (pc = "awaiting") ~> (pc = "idle" \/ Unanswered)

\* The candidates the returned one competed with: those within the range when
\* there are any, and all of them otherwise.
Pool == IF AcceptableYielded # {} THEN AcceptableYielded ELSE Yielded

\* C9: of the candidates that tie with the returned one on the elevation gain
\* and on the deviation, the returned one is that of the lowest waypoint.
C9_TiesToLowestWaypoint ==
    (Returned /\ optimalRouteData # Null) =>
        \A i, j \in Waypoints :
            ( /\ ev[i].phase = "candidate" /\ ev[j].phase = "candidate"
              /\ ev[i].value = optimalRouteData
              /\ ev[j].value \in Pool
              /\ ev[j].value.elevationGainM = optimalRouteData.elevationGainM
              /\ Deviation(ev[j].value) = Deviation(optimalRouteData) ) => i <= j

\* A call has returned, by the fallback branch, the candidate of a waypoint
\* while all later waypoints yielded candidates that tie with it on both keys.
C9_Witness ==
    /\ Returned
    /\ optimalRouteData # Null
    /\ AcceptableYielded = {}
    /\ ev[0].phase = "candidate" /\ ev[0].value = optimalRouteData
    /\ \A j \in Waypoints :
          /\ ev[j].phase = "candidate"
          /\ ev[j].value.elevationGainM = optimalRouteData.elevationGainM
          /\ Deviation(ev[j].value) = Deviation(optimalRouteData)

\* C10: when a call has returned, no evaluation it launched is pending, and
\* the routes it collected are exactly the candidates the evaluations yielded.
C10_ResultOnlyAfterAllSettled ==
    Returned =>
        /\ \A i \in Waypoints : ev[i].promise # "pending" /\ Ended(i)
        /\ Elements(validRoutes) = Yielded
        /\ Len(validRoutes) = Cardinality(Yielded)

\* A call has returned with two candidates collected and evaluations that
\* failed or were rejected.
C10_Witness ==
    /\ Returned
    /\ Cardinality(Yielded) >= 2
    /\ \E i \in Waypoints : ev[i].promise = "rejected" \/ ev[i].phase \in FailedPhases

\* C11: the route queries of a call are issued together, before any callback
\* runs: in no state has one waypoint's route query been issued while another
\* waypoint's is still to come.
C11_RouteQueriesIssuedTogether ==
    (\E i \in Waypoints : ev[i].routeQueries > 0) =>
        \A j \in Waypoints : ev[j].routeQueries = 1

\* The route queries of all waypoints are outstanding at once.
C11_Witness ==
    /\ pc = "awaiting"
    /\ \A i \in Waypoints :
          ev[i].phase = "route" /\ ev[i].promise = "pending" /\ ev[i].routeQueries = 1

\* C12: an evaluation issues one route query and at most one elevation query,
\* the elevation query only once its route query was answered OK with a route
\* of positive length and at least 2 path points; it yields a candidate only
\* behind an answered elevation query, and none when that query fails.
C12_QueriesInSequence ==
    \A i \in Waypoints :
        /\ ev[i].routeQueries <= 1 /\ ev[i].elevationQueries <= 1
        /\ ev[i].phase # "idle" => ev[i].routeQueries = 1
        /\ ev[i].phase \in { "route", "routeThrew" } => ev[i].elevationQueries = 0
        /\ ev[i].elevationQueries = 1 =>
              /\ ev[i].routeStatus = "OK"
              /\ ev[i].phase \in { "elevation", "elevationThrew", "elevationFailed",
                                   "candidate" }
        /\ ev[i].phase = "elevation" =>
              /\ ev[i].result # Null
              /\ Len(ev[i].result.routes) > 0
              /\ ActualDistanceMeters(ev[i].result.routes[1]) > 0
              /\ ev[i].result.routes[1].overview_path >= 2
              /\ ev[i].value = Null /\ ev[i].promise = "pending"
        /\ ev[i].value # Null => ev[i].phase = "candidate" /\ ev[i].elevationQueries = 1
        /\ ev[i].phase = "elevationFailed" =>
              /\ ev[i].value = Null
              /\ ev[i].promise = "fulfilled"
              /\ ev[i].elevationQueries = 1

\* One evaluation has yielded a candidate through both queries, another has
\* lost its elevation query, and a third still waits for its route.
C12_Witness ==
    /\ \E i \in Waypoints : ev[i].phase = "candidate"
    /\ \E i \in Waypoints : ev[i].phase = "elevationFailed"
    /\ \E i \in Waypoints : ev[i].phase = "route"

\* C13: with the geometry library loaded, a call builds one request per
\* waypoint and launches one evaluation for each; the waypoint of request i
\* lies at bearing i * 360 / N from the start point of the call, at the offset
\* of 0.4 times the desired distance, in metres.
C13_WaypointsEvenlySpaced ==
    (googleMaps = "full" /\ outcome \in { "pending", "returned" }) =>
        /\ \A i \in Waypoints :
              /\ ev[i].routeQueries = 1
              /\ ev[i].request # Null
              /\ ev[i].request.origin = call.startPoint
              /\ ev[i].request.destination = call.startPoint
              /\ ev[i].request.waypoint.from = call.startPoint
              /\ ev[i].request.waypoint.heading * NumCandidates = 360 * i
              /\ ev[i].request.waypoint.distance * 10 = call.desiredDistanceKm * 4
        /\ Cardinality({ ev[i].request.waypoint : i \in Waypoints }) = NumCandidates

\* A call is under way with the geometry library loaded: its requests lead
\* through as many different waypoints as there are evaluations.
C13_Witness ==
    /\ googleMaps = "full"
    /\ outcome = "pending"
    /\ \A i \in Waypoints : ev[i].request # Null /\ ev[i].request.waypoint.distance = 2000
    /\ Cardinality({ ev[i].request.waypoint.heading : i \in Waypoints }) = NumCandidates

\* C14: a call launches evaluations for all waypoints or for none, and
\* without the geometry library it ends as a failed precondition: it does not
\* run to a result, and the message shown is not the one of a call that found
\* no course.
C14_ProjectionUnavailableIsFailure ==
    /\ Cardinality({ i \in Waypoints : ev[i].routeQueries > 0 }) \in { 0, NumCandidates }
    /\ googleMaps = "core" =>
          /\ outcome \notin { "pending", "returned" }
          /\ error # MsgNoCourse

\* The rise from sample k - 1 to sample k of an array, 0 for a descent.
Rise(elevations, k) ==
    IF elevations[k].elevation > elevations[k - 1].elevation
    THEN elevations[k].elevation - elevations[k - 1].elevation
    ELSE 0

\* The rises of an array from sample k on, added up from its end.
RECURSIVE RisesFrom(_, _)
RisesFrom(elevations, k) ==
    IF k > Len(elevations) THEN 0
    ELSE Rise(elevations, k) + RisesFrom(elevations, k + 1)

Descending(elevations) ==
    \A k \in 2 .. Len(elevations) : elevations[k].elevation <= elevations[k - 1].elevation

Ascending(elevations) ==
    \A k \in 2 .. Len(elevations) : elevations[k].elevation >= elevations[k - 1].elevation

\* C15: calculateCumulativeElevation returns the sum of the rises between
\* consecutive samples: never a negative value, 0 for fewer than 2 samples
\* and for a descending array, last - first for an ascending one.
C15_CumulativeElevationIsSumOfRises ==
    elevationGainM # NoGain =>
        /\ elevationGainM = RisesFrom(elevationResults, 2)
        /\ elevationGainM >= 0
        /\ Len(elevationResults) < 2 => elevationGainM = 0
        /\ Descending(elevationResults) => elevationGainM = 0
        /\ (Ascending(elevationResults) /\ Len(elevationResults) >= 1) =>
              elevationGainM = elevationResults[Len(elevationResults)].elevation
                                 - elevationResults[1].elevation

\* The gain of an array that descends and then rises has been computed: it
\* is the rise alone, though the array ends below its first sample.
C15_Witness ==
    /\ elevationGainM > 0
    /\ Len(elevationResults) = 3
    /\ elevationResults[2].elevation < elevationResults[1].elevation
    /\ elevationResults[3].elevation > elevationResults[2].elevation
    /\ elevationResults[3].elevation < elevationResults[1].elevation
    /\ elevationGainM = elevationResults[3].elevation - elevationResults[2].elevation

\* C16: the acceptable range is closed.  A valid route passes the filter
\* exactly when 0.75 d <= distanceKm <= 1.25 d, and when some valid route lies
\* in that closed range, a bound included, the result is one of them, of the
\* least elevation gain among them; otherwise the result is the closest.
C16_ToleranceIntervalClosed ==
    (pc = "selected" /\ validRoutes # << >>) =>
        /\ \A c \in Elements(validRoutes) :
              InTolerance(c, call.desiredDistanceKm) <=> Acceptable(c)
        /\ optimalRouteData \in Elements(validRoutes)
        /\ IF \E c \in Elements(validRoutes) : Acceptable(c)
           THEN /\ Acceptable(optimalRouteData)
                /\ \A c \in Elements(validRoutes) :
                      Acceptable(c) => optimalRouteData.elevationGainM <= c.elevationGainM
           ELSE \A c \in Elements(validRoutes) : Deviation(optimalRouteData) <= Deviation(c)

\* The selection has returned a route whose distance is the lower bound of
\* the range, for its elevation gain, against a route inside the range.
C16_Witness ==
    /\ pc = "selected"
    /\ optimalRouteData # Null
    /\ optimalRouteData.distanceKm * 4 = call.desiredDistanceKm * 3
    /\ \E c \in Elements(validRoutes) :
          /\ Deviation(c) < Deviation(optimalRouteData)
          /\ c.elevationGainM > optimalRouteData.elevationGainM

\* The same with a route whose distance is the upper bound of the range.
C16_WitnessUpperBound ==
    /\ pc = "selected"
    /\ optimalRouteData # Null
    /\ optimalRouteData.distanceKm * 4 = call.desiredDistanceKm * 5
    /\ \E c \in Elements(validRoutes) :
          /\ Deviation(c) < Deviation(optimalRouteData)
          /\ c.elevationGainM > optimalRouteData.elevationGainM

\* C17: while a course generation is in flight, isLoading is true and the
\* Create Course button is disabled, so that no second run starts, whatever
\* the marker and the go-to-current-location handler and its callbacks do
\* meanwhile.
C17_LoadingWhileInFlight ==
    /\ pc = "awaiting" => (isLoading /\ ~CreateCourseEnabled)
    /\ overlappingRuns = 0

\* C18: the course on display is one generated for the present start point:
\* after the marker has moved, no course of a generation started from an
\* earlier start point appears.
C18_NoCourseOfEarlierStartPoint ==
    generatedCourse # Null =>
        generatedCourse.directionsResult.request.origin = userStartPoint

\* The run of handleGenerateCourse that the model follows query by query
\* ends in this step: its await resumes, or findOptimalLoopRoute ends without
\* suspending.
FirstRunEnds ==
    \/ pc = "awaiting" /\ pc' = "idle"
    \/ /\ outcome \in { "none", "refused" }
       /\ outcome' \in { "returned", "threw" }

\* A run started beside it ends in this step.
OverlappingRunEnds == overlappingRuns' < overlappingRuns

\* C19: a run of handleGenerateCourse that has passed its checks ends with
\* isLoading false; with the course of the route when findOptimalLoopRoute
\* returned one, with no course and the no-course message when it returned
\* null, and with no course and the message of the error when it threw.
C19_RunOutcomes ==
    [][ /\ (FirstRunEnds \/ OverlappingRunEnds) => isLoading' = FALSE
        /\ FirstRunEnds => outcome' \in { "returned", "threw" }
        /\ (FirstRunEnds /\ outcome' = "returned" /\ optimalRouteData' # Null) =>
              /\ generatedCourse' # Null
              /\ generatedCourse'.directionsResult = optimalRouteData'.route
              /\ generatedCourse'.stats = RouteStats(optimalRouteData')
        /\ ( \/ FirstRunEnds /\ outcome' = "returned" /\ optimalRouteData' = Null
             \/ OverlappingRunEnds ) =>
              /\ generatedCourse' = Null
              /\ error' = MsgNoCourse
        /\ (FirstRunEnds /\ outcome' = "threw") =>
              /\ generatedCourse' = Null
              /\ error' = MsgApiNotLoaded
      ]_vars

\* C20: an evaluation whose route query ended with ZERO_RESULTS has logged no
\* warning, one whose route query ended with another status and no route has
\* logged exactly one, and both have yielded no candidate.
C20_ZeroResultsNotLogged ==
    \A i \in Waypoints :
        ev[i].phase = "noRoute" =>
            /\ ev[i].value = Null
            /\ ev[i].promise = "fulfilled"
            /\ ev[i].elevationQueries = 0
            /\ ev[i].routeStatus = "ZERO_RESULTS" => ev[i].warnings = 0
            /\ ev[i].routeStatus # "ZERO_RESULTS" => ev[i].warnings = 1

\* One route query has ended with ZERO_RESULTS and no warning, another with
\* NOT_FOUND and one warning.
C20_Witness ==
    /\ \E i \in Waypoints :
          /\ ev[i].phase = "noRoute"
          /\ ev[i].routeStatus = "ZERO_RESULTS"
          /\ ev[i].warnings = 0
    /\ \E i \in Waypoints :
          /\ ev[i].phase = "noRoute"
          /\ ev[i].routeStatus = "NOT_FOUND"
          /\ ev[i].warnings = 1

\* The number of points of the overview path of the route whose elevation
\* query is outstanding for waypoint i.
PathPoints(i) == ev[i].result.routes[1].overview_path

\* C21: the sample count of every outstanding elevation query is the smaller
\* of 128 and the number of points of the route's overview path; it is at
\* most 128, at most the number of path points, and at least 2.
C21_SampleCountIsMinOfLimitAndPath ==
    \A i \in Waypoints :
        ev[i].phase = "elevation" =>
            /\ ev[i].elevationQueries = 1
            /\ ev[i].samples = (IF PathPoints(i) < 128 THEN PathPoints(i) ELSE 128)
            /\ ev[i].samples <= 128
            /\ ev[i].samples <= PathPoints(i)
            /\ ev[i].samples >= 2

\* Elevation queries are outstanding for a path of more than 128 points,
\* with 128 samples, and for a path of 2 points, with 2 samples.
C21_Witness ==
    /\ \E i \in Waypoints :
          /\ ev[i].phase = "elevation"
          /\ PathPoints(i) > 128
          /\ ev[i].samples = 128
    /\ \E i \in Waypoints :
          /\ ev[i].phase = "elevation"
          /\ PathPoints(i) = 2
          /\ ev[i].samples = 2

====
